---- MODULE Spec2Model ----
(***************************************************************************)
(* AsyncJobQueue: a fixed pool of worker threads draining a shared job     *)
(* list, with per-key pending / in-progress accounting (AsyncJobQueue<Key>)*)
(* and the no-key specialisation AsyncJobQueue<NoKey>.                     *)
(*                                                                         *)
(* Threads are modelled by program counters.  A critical section that only *)
(* touches mutex-protected data is one step; a step boundary is kept       *)
(* wherever unlocked code (request_stop, notify_*, a job body) can         *)
(* interleave: in particular between a worker's evaluation of its wait     *)
(* predicate and its blocking in condition_variable::wait.                 *)
(***************************************************************************)
EXTENDS Integers, Sequences, FiniteSets, TLC

\* ---------------------------------------------------------------- bounds
MaxJobs == 2

Keys == {"A", "B"}
\* thread_pool, in vector order; a pool of size n is the first n of them
PoolOrder == <<"w1", "w2">>
PoolSizes == {1, 2}
Workers == {PoolOrder[i] : i \in 1..Len(PoolOrder)}
\* the calling threads: one submits and cancels, one joins
Submitters == {"c1"}
Joiners == {"c2"}
Clients == Submitters \cup Joiners
\* the key packs Join is called with; the queue treats all keys alike, so
\* the single-key call names "A"
JoinKeySets == {{}, {"A"}, {"A", "B"}}
\* what the callable of AddWithCallback returns ("void": it returns nothing)
Rets == {"void", "r1", "r2"}
NoRet == "none"
Free == "free"
NoJob == 0
\* struct NoKey: the key of every job of AsyncJobQueue<NoKey>
NoKey == "NoKey"
\* std::size_t arithmetic wraps; the modulus stands for 2^64, any modulus
\* above the pool size and the job count gives the same values
SizeModulus == 1073741824

VARIABLES
    \* AsyncJobQueue<Key>
    pool,                       \* the worker threads constructed
    job_list,                   \* std::list<tuple<Key, future>>: job ids
    pending_job_count_map,      \* std::map<Key, size_t>
    in_progress_job_count_map,  \* std::map<Key, size_t>
    mutex,                      \* owner of mutex_for_condition_variable
    stop_requested,             \* per jthread stop state
    wpc, wjob,                  \* worker position, job it moved out of the list
    wret,                       \* what the callable it invoked returned
    cpc, ckeys,                 \* caller position, keys of its Join call
    dtor,                       \* ~AsyncJobQueue position
    jobs,                       \* every job ever added: [key, cb]
    \* AsyncJobQueue<NoKey> (with pool, mutex, stop_requested, the positions)
    job_queue,                  \* std::queue<future>: job ids
    number_of_busy_threads,     \* std::size_t
    \* observations
    cancelled,                  \* jobs a Cancel removed from job_list
    done,                       \* jobs whose worker finished the accounting
    fn_runs,                    \* per job, invocations of its callable
    cb_calls,                   \* per job, one entry per callback invocation:
                                \* whether it received the callable's result
    dequeue_log, start_log,     \* jobs in dequeue order, in start order
    pending_at_stop,            \* job_list when the last stop was requested
    join_from,                  \* no-key Join in progress: the jobs whose Add
                                \* had returned when it was called
    ready_seen                  \* Ready call in progress: whether some state
                                \* since the call had Ready(keys) true

vars == <<pool, job_list, pending_job_count_map, in_progress_job_count_map,
          mutex, stop_requested, wpc, wjob, wret, cpc, ckeys, dtor, jobs,
          job_queue, number_of_busy_threads, cancelled, done, fn_runs, cb_calls, dequeue_log, start_log,
          pending_at_stop, join_from, ready_seen>>

queue_vars == <<job_list, pending_job_count_map, in_progress_job_count_map,
                job_queue, number_of_busy_threads>>
keyed_vars == <<job_list, pending_job_count_map, in_progress_job_count_map,
                ckeys, dequeue_log, start_log, wret, dtor, pending_at_stop,
                stop_requested, pool, ready_seen>>
hist_vars == <<cancelled, done, fn_runs, cb_calls, dequeue_log, start_log>>

JobIds == 1..MaxJobs

\* mutant: the decrement is left out
Dec_Skipped(n) == n

\* ++ and -- on a std::size_t
Inc(n) == (n + 1) % SizeModulus
Dec(n) == (n - 1) % SizeModulus

\* ------------------------------------------------------- std::map helpers
EmptyMap == [k \in {} |-> 0]

Contains(m, k) == k \in DOMAIN m

\* operator[]: value-initialises a missing entry
At(m, k) == IF k \in DOMAIN m THEN m[k] ELSE 0

Put(m, k, v) == [x \in DOMAIN m \cup {k} |-> IF x = k THEN v ELSE m[x]]

Erase(m, ks) == [x \in DOMAIN m \ ks |-> m[x]]

\* mutant: the erase_if predicate negated
EraseKeys_Inverted(s, js, ks) ==
    LET keep == {i \in 1..Len(s) : js[s[i]].key \in ks}
        F[i \in 0..Len(s)] ==
            IF i = 0 THEN << >>
            ELSE IF i \in keep THEN Append(F[i - 1], s[i]) ELSE F[i - 1]
    IN  F[Len(s)]

\* erase_if on the list: the entries whose key is not among ks, order kept
RECURSIVE EraseKeys(_, _, _)
EraseKeys(s, js, ks) ==
    IF s = << >> THEN << >>
    ELSE IF js[Head(s)].key \in ks
         THEN EraseKeys(Tail(s), js, ks)
         ELSE <<Head(s)>> \o EraseKeys(Tail(s), js, ks)

SeqSet(s) == {s[i] : i \in 1..Len(s)}

\* ------------------------------------------------------------ predicates
\* mutant: Ready looks at the given keys only, not at job_list
Ready_KeysOnly(ks) ==
    /\ \A k \in ks : ~Contains(pending_job_count_map, k)
    /\ \A k \in ks : ~Contains(in_progress_job_count_map, k)

\* Ready(ts...): the two folds are over the given keys only
Ready(ks) ==
    /\ job_list = << >>
    /\ \A k \in ks : ~Contains(pending_job_count_map, k)
    /\ \A k \in ks : ~Contains(in_progress_job_count_map, k)

\* mutant: Join() with no key waits on Ready() like the keyed calls
JoinPredicate_ReadyOnly(ks) == Ready(ks)

\* the predicate Join waits on
JoinPredicate(ks) ==
    IF ks = {}
    THEN /\ job_list = << >>
         /\ DOMAIN pending_job_count_map = {}
         /\ DOMAIN in_progress_job_count_map = {}
    ELSE Ready(ks)

\* job_condition_variable.wait's predicate in the dispatcher
JobWaitPredicate(w) == stop_requested[w] \/ job_list # << >>

\* ------------------------------------------------- condition variables
\* mutant: the notification of the Join waiters wakes nobody
NotifyAllJoin_Lost(pc) == pc

\* join_condition_variable.notify_all()
NotifyAllJoin(pc) ==
    [c \in Clients |-> IF pc[c] = "join_wait" THEN "join_woken" ELSE pc[c]]

\* job_condition_variable.notify_all()
NotifyAllJob(pc) ==
    [w \in Workers |-> IF pc[w] = "waiting" THEN "woken" ELSE pc[w]]

\* mutant: the notification wakes nobody
NotifyOneJob_Lost(pc) == {pc}

\* job_condition_variable.notify_one(): the results it can have
NotifyOneJob(pc) ==
    IF \E w \in Workers : pc[w] = "waiting"
    THEN {[pc EXCEPT ![w] = "woken"] : w \in {x \in Workers : pc[x] = "waiting"}}
    ELSE {pc}

\* ------------------------------------------------------ the Ready caller
\* a caller is inside Ready(ts...), before its last read
ReadyCalling(c) == cpc[c] \in {"ready_list", "ready_pending", "ready_in_progress"}

\* the observation kept for a Ready call in progress, by a step that
\* changes job_list or the maps: whether the state it leads to has job_list
\* empty and the call's keys in neither map
ReadySeenNext ==
    \/ ready_seen
    \/ \E c \in Clients :
          /\ ReadyCalling(c)
          /\ job_list' = << >>
          /\ \A k \in ckeys[c] :
                /\ ~Contains(pending_job_count_map', k)
                /\ ~Contains(in_progress_job_count_map', k)

\* ------------------------------------------------------------------ Init
Init ==
    /\ \E n \in PoolSizes : pool = {PoolOrder[i] : i \in 1..n}
    /\ job_list = << >>
    /\ pending_job_count_map = EmptyMap
    /\ in_progress_job_count_map = EmptyMap
    /\ mutex = Free
    /\ stop_requested = [w \in Workers |-> FALSE]
    /\ wpc = [w \in Workers |-> IF w \in pool THEN "loop" ELSE "absent"]
    /\ wjob = [w \in Workers |-> NoJob]
    /\ wret = [w \in Workers |-> NoRet]
    /\ cpc = [c \in Clients |-> "idle"]
    /\ ckeys = [c \in Clients |-> {}]
    /\ dtor = "alive"
    /\ jobs = << >>
    /\ job_queue = << >>
    /\ number_of_busy_threads = Cardinality(pool)
    /\ cancelled = {}
    /\ done = {}
    /\ fn_runs = [j \in JobIds |-> 0]
    /\ cb_calls = [j \in JobIds |-> << >>]
    /\ dequeue_log = << >>
    /\ start_log = << >>
    /\ pending_at_stop = {}
    /\ join_from = {}
    /\ ready_seen = FALSE

\* ------------------------------------------------------------ the callers
\* mutant: emplace_front
EmplaceFront(s, j) == <<j>> \o s

\* job_list.emplace_back(key, future)
EmplaceBack(s, j) == Append(s, j)

\* ++pending_job_count_map[key]
PendingAfterAdd(m, k) == Put(m, k, Inc(At(m, k)))

\* Add / AddWithCallback up to the end of the locked region
Append_(c, rec) ==
    /\ dtor = "alive"
    /\ c \in Submitters
    /\ cpc[c] = "idle"
    /\ mutex = Free
    /\ Len(jobs) < MaxJobs
    /\ jobs' = Append(jobs, rec)
    /\ job_list' = EmplaceBack(job_list, Len(jobs) + 1)
    /\ pending_job_count_map' = PendingAfterAdd(pending_job_count_map, rec.key)
    /\ cpc' = [cpc EXCEPT ![c] = "add_notify"]
    /\ UNCHANGED <<pool, in_progress_job_count_map, mutex, stop_requested, wpc,
                   wjob, wret, ckeys, dtor, pending_at_stop, join_from, job_queue,
                   number_of_busy_threads>>
    /\ UNCHANGED hist_vars
    /\ ready_seen' = ReadySeenNext

Add(c) ==
    \E k \in Keys : Append_(c, [key |-> k, cb |-> FALSE])

AddWithCallback(c) ==
    \E k \in Keys : Append_(c, [key |-> k, cb |-> TRUE])

\* job_condition_variable.notify_one() after the lock is released
AddNotify(c) ==
    /\ cpc[c] = "add_notify"
    /\ wpc' \in NotifyOneJob(wpc)
    /\ cpc' = [cpc EXCEPT ![c] = "idle"]
    /\ UNCHANGED <<pool, mutex, stop_requested, wjob, wret, ckeys, dtor, jobs,
                   pending_at_stop, join_from, ready_seen>>
    /\ UNCHANGED queue_vars
    /\ UNCHANGED hist_vars

\* Join(ts...): the call starts
JoinCall(c) ==
    /\ dtor = "alive"
    /\ c \in Joiners
    /\ cpc[c] = "idle"
    /\ \E ks \in JoinKeySets : ckeys' = [ckeys EXCEPT ![c] = ks]
    /\ cpc' = [cpc EXCEPT ![c] = "join_lock"]
    /\ UNCHANGED <<pool, mutex, stop_requested, wpc, wjob, wret, dtor, jobs,
                   pending_at_stop, join_from, ready_seen>>
    /\ UNCHANGED queue_vars
    /\ UNCHANGED hist_vars

\* Join: takes the mutex (first, or again after a wakeup) and tests the
\* predicate; blocks in wait (releasing the mutex) when it is false
JoinCheck(c) ==
    /\ cpc[c] \in {"join_lock", "join_woken"}
    /\ mutex = Free
    /\ IF JoinPredicate(ckeys[c])
       THEN /\ mutex' = c
            /\ cpc' = [cpc EXCEPT ![c] = "join_ret"]
       ELSE /\ mutex' = Free
            /\ cpc' = [cpc EXCEPT ![c] = "join_wait"]
    /\ UNCHANGED <<pool, stop_requested, wpc, wjob, wret, ckeys, dtor, jobs,
                   pending_at_stop, join_from, ready_seen>>
    /\ UNCHANGED queue_vars
    /\ UNCHANGED hist_vars

\* Join returns: the unique_lock is destroyed
JoinReturn(c) ==
    /\ cpc[c] = "join_ret"
    /\ mutex = c
    /\ mutex' = Free
    /\ cpc' = [cpc EXCEPT ![c] = "idle"]
    /\ ckeys' = [ckeys EXCEPT ![c] = {}]
    /\ UNCHANGED <<pool, stop_requested, wpc, wjob, wret, dtor, jobs,
                   pending_at_stop, join_from, ready_seen>>
    /\ UNCHANGED queue_vars
    /\ UNCHANGED hist_vars

\* mutant: Cancel(ts...) clears the list whatever keys it is given
CancelTargets_All(ks) == Keys

\* the keys Cancel(ts...) removes from the list: every key when none is given
CancelTargets(ks) == IF ks = {} THEN Keys ELSE ks

\* Cancel(ts...) with the key pack ks
CancelKeys(c, ks) ==
    /\ dtor = "alive"
    /\ c \in Submitters
    /\ cpc[c] = "idle"
    /\ mutex = Free
    /\ job_list' = EraseKeys(job_list, jobs, CancelTargets(ks))
    /\ pending_job_count_map' = Erase(pending_job_count_map, CancelTargets(ks))
    /\ cancelled' = cancelled \cup (SeqSet(job_list) \ SeqSet(job_list'))
    /\ UNCHANGED <<pool, in_progress_job_count_map, mutex, stop_requested, wpc,
                   wjob, wret, cpc, ckeys, dtor, jobs, pending_at_stop,
                   join_from, job_queue, number_of_busy_threads>>
    /\ UNCHANGED <<done, fn_runs, cb_calls, dequeue_log, start_log>>
    /\ ready_seen' = ReadySeenNext

Cancel(c) == \E ks \in SUBSET Keys : CancelKeys(c, ks)

\* a condition variable may wake a waiter with no notification
SpuriousJoinWakeup(c) ==
    /\ cpc[c] = "join_wait"
    /\ cpc' = [cpc EXCEPT ![c] = "join_woken"]
    /\ UNCHANGED <<pool, mutex, stop_requested, wpc, wjob, wret, ckeys, dtor, jobs,
                   pending_at_stop, join_from, ready_seen>>
    /\ UNCHANGED queue_vars
    /\ UNCHANGED hist_vars

\* Ready(ts...) is entered: no lock is taken, here or later in the call.
\* Each of its three conditions is a separate unsynchronised read; a read
\* is taken to return what the container holds at that moment.
ReadyCall(c) ==
    /\ dtor = "alive"
    /\ c \in Joiners
    /\ cpc[c] = "idle"
    /\ \E ks \in JoinKeySets :
          /\ ckeys' = [ckeys EXCEPT ![c] = ks]
          /\ ready_seen' = Ready(ks)
    /\ cpc' = [cpc EXCEPT ![c] = "ready_list"]
    /\ UNCHANGED <<pool, mutex, stop_requested, wpc, wjob, wret, dtor, jobs,
                   pending_at_stop, join_from>>
    /\ UNCHANGED queue_vars
    /\ UNCHANGED hist_vars

\* std::empty(job_list); && goes on only when it holds
ReadyTestList(c) ==
    /\ cpc[c] = "ready_list"
    /\ cpc' = [cpc EXCEPT ![c] =
                  IF job_list = << >> THEN "ready_pending" ELSE "ready_false"]
    /\ UNCHANGED <<pool, mutex, stop_requested, wpc, wjob, wret, ckeys, dtor, jobs,
                   pending_at_stop, join_from, ready_seen>>
    /\ UNCHANGED queue_vars
    /\ UNCHANGED hist_vars

\* (!pending_job_count_map.contains(ts) && ...)
ReadyTestPending(c) ==
    /\ cpc[c] = "ready_pending"
    /\ cpc' = [cpc EXCEPT ![c] =
                  IF \A k \in ckeys[c] : ~Contains(pending_job_count_map, k)
                  THEN "ready_in_progress" ELSE "ready_false"]
    /\ UNCHANGED <<pool, mutex, stop_requested, wpc, wjob, wret, ckeys, dtor, jobs,
                   pending_at_stop, join_from, ready_seen>>
    /\ UNCHANGED queue_vars
    /\ UNCHANGED hist_vars

\* (!in_progress_job_count_map.contains(ts) && ...)
ReadyTestInProgress(c) ==
    /\ cpc[c] = "ready_in_progress"
    /\ cpc' = [cpc EXCEPT ![c] =
                  IF \A k \in ckeys[c] : ~Contains(in_progress_job_count_map, k)
                  THEN "ready_true" ELSE "ready_false"]
    /\ UNCHANGED <<pool, mutex, stop_requested, wpc, wjob, wret, ckeys, dtor, jobs,
                   pending_at_stop, join_from, ready_seen>>
    /\ UNCHANGED queue_vars
    /\ UNCHANGED hist_vars

\* Ready returns its value to the caller
ReadyReturn(c) ==
    /\ cpc[c] \in {"ready_true", "ready_false"}
    /\ cpc' = [cpc EXCEPT ![c] = "idle"]
    /\ ckeys' = [ckeys EXCEPT ![c] = {}]
    /\ ready_seen' = FALSE
    /\ UNCHANGED <<pool, mutex, stop_requested, wpc, wjob, wret, dtor, jobs,
                   pending_at_stop, join_from>>
    /\ UNCHANGED queue_vars
    /\ UNCHANGED hist_vars

\* ------------------------------------------------- JobDispatcherThread
\* mutant: the entry is left in the map at zero
PendingAfterDequeue_NoErase(m, k) == Put(m, k, Dec(At(m, k)))

\* --pending_job_count on the entry operator[] yields, erased at zero
PendingAfterDequeue(m, k) ==
    LET c == Dec(At(m, k)) IN IF c = 0 THEN Erase(m, {k}) ELSE Put(m, k, c)

\* mutant: the in-progress count is raised twice per dequeue
InProgressAfterDequeue_Double(m, k) == Put(m, k, Inc(Inc(At(m, k))))

\* ++in_progress_job_count on the entry operator[] yields
InProgressAfterDequeue(m, k) == Put(m, k, Inc(At(m, k)))

\* mutant: the key is erased when any of its jobs finishes
InProgressAfterFinish_Erase(m, k) == Erase(m, {k})

\* --in_progress_job_count, erased at zero
InProgressAfterFinish(m, k) ==
    LET c == Dec(At(m, k)) IN IF c = 0 THEN Erase(m, {k}) ELSE Put(m, k, c)

\* the test that guards the notify_all after a job: the key left the
\* in-progress map and is not in the pending map
NotifyAfterFinish(k) ==
    /\ ~Contains(InProgressAfterFinish(in_progress_job_count_map, k), k)
    /\ ~Contains(pending_job_count_map, k)

\* the entry of job_list a worker takes
Front(s) == Head(s)

\* mutant: the loop is left on stop alone
ExitLoop_StopOnly(w) == stop_requested[w]

\* the test after the wait that leaves the loop
ExitLoop(w) == stop_requested[w] /\ job_list = << >>

\* mutant: a worker leaves its loop whenever wait returns
AfterWait_Terminate(w) == "terminated"

\* where a worker goes once wait has returned
AfterWait(w) == IF ExitLoop(w) THEN "terminated" ELSE "loop"

\* idle branch up to the first evaluation of the wait predicate, and past
\* the wait when the predicate is already true
WorkerIdle(w) ==
    /\ wpc[w] = "loop"
    /\ mutex = Free
    /\ job_list = << >>
    /\ cpc' = NotifyAllJoin(cpc)
    /\ IF JobWaitPredicate(w)
       THEN /\ wpc' = [wpc EXCEPT ![w] = AfterWait(w)]
            /\ mutex' = Free
       ELSE /\ wpc' = [wpc EXCEPT ![w] = "blocking"]
            /\ mutex' = w
    /\ UNCHANGED <<pool, stop_requested, wjob, wret, ckeys, dtor, jobs, pending_at_stop, join_from, ready_seen>>
    /\ UNCHANGED queue_vars
    /\ UNCHANGED hist_vars

\* condition_variable::wait(lk): releases the mutex and blocks, atomically
WorkerBlock(w) ==
    /\ wpc[w] = "blocking"
    /\ mutex = w
    /\ mutex' = Free
    /\ wpc' = [wpc EXCEPT ![w] = "waiting"]
    /\ UNCHANGED <<pool, stop_requested, wjob, wret, cpc, ckeys, dtor, jobs,
                   pending_at_stop, join_from, ready_seen>>
    /\ UNCHANGED queue_vars
    /\ UNCHANGED hist_vars

\* after a wakeup: the mutex is taken again and the predicate re-evaluated;
\* then the test that leaves the loop
WorkerWake(w) ==
    /\ wpc[w] = "woken"
    /\ mutex = Free
    /\ IF ~JobWaitPredicate(w)
       THEN /\ wpc' = [wpc EXCEPT ![w] = "blocking"]
            /\ mutex' = w
       ELSE /\ wpc' = [wpc EXCEPT ![w] = AfterWait(w)]
            /\ mutex' = Free
    /\ UNCHANGED <<pool, stop_requested, wjob, wret, cpc, ckeys, dtor, jobs,
                   pending_at_stop, join_from, ready_seen>>
    /\ UNCHANGED queue_vars
    /\ UNCHANGED hist_vars

SpuriousJobWakeup(w) ==
    /\ wpc[w] = "waiting"
    /\ wpc' = [wpc EXCEPT ![w] = "woken"]
    /\ UNCHANGED <<pool, mutex, stop_requested, wjob, wret, cpc, ckeys, dtor, jobs,
                   pending_at_stop, join_from, ready_seen>>
    /\ UNCHANGED queue_vars
    /\ UNCHANGED hist_vars

\* else branch, to lk.unlock(): the head is moved out and accounted
WorkerDispatch(w) ==
    /\ wpc[w] = "loop"
    /\ mutex = Free
    /\ job_list # << >>
    /\ LET j == Front(job_list)
           k == jobs[j].key
       IN  /\ job_list' = Tail(job_list)
           /\ pending_job_count_map' = PendingAfterDequeue(pending_job_count_map, k)
           /\ in_progress_job_count_map' =
                 InProgressAfterDequeue(in_progress_job_count_map, k)
           /\ wjob' = [wjob EXCEPT ![w] = j]
           /\ dequeue_log' = Append(dequeue_log, j)
    /\ wpc' = [wpc EXCEPT ![w] = "exec"]
    /\ UNCHANGED <<pool, mutex, stop_requested, wret, cpc, ckeys, dtor, jobs,
                   pending_at_stop, join_from, job_queue, number_of_busy_threads>>
    /\ UNCHANGED <<cancelled, done, fn_runs, cb_calls, start_log>>
    /\ ready_seen' = ReadySeenNext

\* job.get(), first half: the deferred lambda invokes the callable
WorkerRunFn(w) ==
    /\ wpc[w] = "exec"
    /\ fn_runs' = [fn_runs EXCEPT ![wjob[w]] = @ + 1]
    /\ start_log' = Append(start_log, wjob[w])
    /\ IF jobs[wjob[w]].cb
       THEN /\ \E r \in Rets : wret' = [wret EXCEPT ![w] = r]
            /\ wpc' = [wpc EXCEPT ![w] = "callback"]
       ELSE /\ wret' = wret
            /\ wpc' = [wpc EXCEPT ![w] = "relock"]
    /\ UNCHANGED <<pool, mutex, stop_requested, wjob, cpc, ckeys, dtor, jobs,
                   pending_at_stop, join_from, ready_seen>>
    /\ UNCHANGED queue_vars
    /\ UNCHANGED <<cancelled, done, cb_calls, dequeue_log>>

\* mutant: the callback is invoked without the result
CallbackArgument_Void(w) == "void"

\* what the lambda hands the callback: the callable's result
CallbackArgument(w) == wret[w]

\* job.get(), second half: the lambda invokes the callback
WorkerRunCallback(w) ==
    /\ wpc[w] = "callback"
    /\ cb_calls' = [cb_calls EXCEPT ![wjob[w]] =
                        Append(@, CallbackArgument(w) = wret[w])]
    /\ wret' = [wret EXCEPT ![w] = NoRet]
    /\ wpc' = [wpc EXCEPT ![w] = "relock"]
    /\ UNCHANGED <<pool, mutex, stop_requested, wjob, cpc, ckeys, dtor, jobs,
                   pending_at_stop, join_from, ready_seen>>
    /\ UNCHANGED queue_vars
    /\ UNCHANGED <<cancelled, done, fn_runs, dequeue_log, start_log>>

\* std::terminate: an exception left the thread function of a jthread; the
\* process is aborted, every thread with it
Terminate(pc) == [t \in DOMAIN pc |-> IF pc[t] = "absent" THEN pc[t] ELSE "aborted"]

\* job.get() rethrows what the callable threw: nothing in the dispatcher
\* catches it
WorkerRunFnThrows(w) ==
    /\ wpc[w] = "exec"
    /\ fn_runs' = [fn_runs EXCEPT ![wjob[w]] = @ + 1]
    /\ start_log' = Append(start_log, wjob[w])
    /\ wpc' = Terminate(wpc)
    /\ cpc' = Terminate(cpc)
    /\ UNCHANGED <<pool, mutex, stop_requested, wjob, wret, ckeys, dtor, jobs,
                   pending_at_stop, join_from, ready_seen>>
    /\ UNCHANGED queue_vars
    /\ UNCHANGED <<cancelled, done, cb_calls, dequeue_log>>

\* job.get() rethrows what the callback threw
WorkerRunCallbackThrows(w) ==
    /\ wpc[w] = "callback"
    /\ cb_calls' = [cb_calls EXCEPT ![wjob[w]] =
                        Append(@, CallbackArgument(w) = wret[w])]
    /\ wpc' = Terminate(wpc)
    /\ cpc' = Terminate(cpc)
    /\ UNCHANGED <<pool, mutex, stop_requested, wjob, wret, ckeys, dtor, jobs,
                   pending_at_stop, join_from, ready_seen>>
    /\ UNCHANGED queue_vars
    /\ UNCHANGED <<cancelled, done, fn_runs, dequeue_log, start_log>>

\* lk.lock() to the end of the else branch
WorkerFinish(w) ==
    /\ wpc[w] = "relock"
    /\ mutex = Free
    /\ LET k == jobs[wjob[w]].key
       IN  /\ in_progress_job_count_map' =
                 InProgressAfterFinish(in_progress_job_count_map, k)
           /\ cpc' = IF NotifyAfterFinish(k) THEN NotifyAllJoin(cpc) ELSE cpc
    /\ done' = done \cup {wjob[w]}
    /\ wjob' = [wjob EXCEPT ![w] = NoJob]
    /\ wpc' = [wpc EXCEPT ![w] = "loop"]
    /\ UNCHANGED <<pool, job_list, pending_job_count_map, mutex, stop_requested,
                   wret, ckeys, dtor, jobs, pending_at_stop, join_from, job_queue,
                   number_of_busy_threads>>
    /\ UNCHANGED <<cancelled, fn_runs, cb_calls, dequeue_log, start_log>>
    /\ ready_seen' = ReadySeenNext

\* ------------------------------------------------------- ~AsyncJobQueue
AllStopRequested == \A w \in pool : stop_requested[w]

\* the next thread of thread_pool the loop reaches
NextToStop ==
    PoolOrder[CHOOSE i \in 1..Len(PoolOrder) :
                 /\ PoolOrder[i] \in pool
                 /\ ~stop_requested[PoolOrder[i]]
                 /\ \A h \in 1..(i - 1) : stop_requested[PoolOrder[h]]]

\* t.request_stop(), one thread per step; the destructor runs once no call
\* on the object is in progress
DtorRequestStop ==
    /\ dtor \in {"alive", "stopping"}
    /\ dtor = "alive" => \A c \in Clients : cpc[c] = "idle"
    /\ ~AllStopRequested
    /\ stop_requested' = [stop_requested EXCEPT ![NextToStop] = TRUE]
    /\ dtor' = "stopping"
    /\ pending_at_stop' =
          IF \A w \in pool \ {NextToStop} : stop_requested[w]
          THEN SeqSet(job_list) ELSE pending_at_stop
    /\ UNCHANGED <<pool, mutex, wpc, wjob, wret, cpc, ckeys, jobs, join_from, ready_seen>>
    /\ UNCHANGED queue_vars
    /\ UNCHANGED hist_vars

\* job_condition_variable.notify_all(), the mutex not held
DtorNotifyAll ==
    /\ dtor = "stopping"
    /\ AllStopRequested
    /\ wpc' = NotifyAllJob(wpc)
    /\ dtor' = "joining"
    /\ UNCHANGED <<pool, mutex, stop_requested, wjob, wret, cpc, ckeys, jobs,
                   pending_at_stop, join_from, ready_seen>>
    /\ UNCHANGED queue_vars
    /\ UNCHANGED hist_vars

\* thread_pool is destroyed: every jthread is joined
DtorJoin ==
    /\ dtor = "joining"
    /\ \A w \in pool : wpc[w] = "terminated"
    /\ dtor' = "destroyed"
    /\ UNCHANGED <<pool, mutex, stop_requested, wpc, wjob, wret, cpc, ckeys, jobs,
                   pending_at_stop, join_from, ready_seen>>
    /\ UNCHANGED queue_vars
    /\ UNCHANGED hist_vars

\* ------------------------------------------------------------------ Spec
SubmitStep(c) ==
    \/ Add(c)
    \/ AddWithCallback(c)
    \/ AddNotify(c)

JoinStep(c) ==
    \/ JoinCall(c)
    \/ JoinCheck(c)
    \/ JoinReturn(c)

WorkerStep(w) ==
    \/ WorkerIdle(w)
    \/ WorkerBlock(w)
    \/ WorkerWake(w)
    \/ WorkerDispatch(w)
    \/ WorkerRunFn(w)
    \/ WorkerRunCallback(w)
    \/ WorkerFinish(w)

DtorStep == DtorRequestStop \/ DtorNotifyAll \/ DtorJoin

\* the queue in use: callers submit, cancel and join, the workers run
Next ==
    \/ \E c \in Clients : SubmitStep(c)
    \/ \E c \in Clients : Cancel(c)
    \/ \E c \in Clients : JoinStep(c)
    \/ \E c \in Clients : SpuriousJoinWakeup(c)
    \/ \E w \in Workers : WorkerStep(w)
    \/ \E w \in Workers : SpuriousJobWakeup(w)

Spec == Init /\ [][Next]_vars

\* scheduling: a thread that can take a step, or that can take the mutex
\* again and again, eventually does; a call that has started completes.  No
\* caller is obliged to start a call and no wakeup is obliged to be spurious.
Fairness ==
    /\ \A w \in Workers : SF_vars(WorkerStep(w))
    /\ \A c \in Clients :
          /\ WF_vars(AddNotify(c))
          /\ SF_vars(JoinCheck(c))
          /\ WF_vars(JoinReturn(c))

FairSpec == Spec /\ Fairness

\* the queue submitted to and then destroyed
NextShutdown ==
    \/ \E c \in Clients : SubmitStep(c)
    \/ \E w \in Workers : WorkerStep(w)
    \/ \E w \in Workers : SpuriousJobWakeup(w)
    \/ DtorStep

SpecShutdown == Init /\ [][NextShutdown]_vars

\* the destructor, once entered, runs on
FairnessShutdown ==
    /\ \A w \in Workers : SF_vars(WorkerStep(w))
    /\ \A c \in Clients : WF_vars(AddNotify(c))
    /\ WF_vars(dtor # "alive" /\ DtorStep)

FairSpecShutdown == SpecShutdown /\ FairnessShutdown

\* the queue in use, with callables and callbacks that may throw
WorkerThrowStep(w) == WorkerRunFnThrows(w) \/ WorkerRunCallbackThrows(w)

NextThrow ==
    \/ Next
    \/ \E w \in Workers : WorkerThrowStep(w)

SpecThrow == Init /\ [][NextThrow]_vars

\* the queue in use by a submitter and a caller that polls Ready
ReadyStep(c) ==
    \/ ReadyCall(c)
    \/ ReadyTestList(c)
    \/ ReadyTestPending(c)
    \/ ReadyTestInProgress(c)
    \/ ReadyReturn(c)

NextReady ==
    \/ \E c \in Clients : SubmitStep(c)
    \/ \E c \in Clients : Cancel(c)
    \/ \E c \in Clients : ReadyStep(c)
    \/ \E w \in Workers : WorkerStep(w)

SpecReady == Init /\ [][NextReady]_vars

\* ===================================================== AsyncJobQueue<NoKey>
\* Add / AddWithCallback: the push under the mutex
NKPush(c, rec) ==
    /\ dtor = "alive"
    /\ c \in Submitters
    /\ cpc[c] = "idle"
    /\ mutex = Free
    /\ Len(jobs) < MaxJobs
    /\ jobs' = Append(jobs, rec)
    /\ job_queue' = Append(job_queue, Len(jobs) + 1)
    /\ cpc' = [cpc EXCEPT ![c] = "add_notify"]
    /\ UNCHANGED <<mutex, wpc, wjob, number_of_busy_threads, cancelled, done,
                   fn_runs, cb_calls>>
    /\ UNCHANGED <<keyed_vars, join_from>>

NKAdd(c) == NKPush(c, [key |-> NoKey, cb |-> FALSE])

NKAddWithCallback(c) == NKPush(c, [key |-> NoKey, cb |-> TRUE])

\* job_condition_variable.notify_one() after the lock is released
NKAddNotify(c) ==
    /\ cpc[c] = "add_notify"
    /\ wpc' \in NotifyOneJob(wpc)
    /\ cpc' = [cpc EXCEPT ![c] = "idle"]
    /\ UNCHANGED <<mutex, wjob, jobs, job_queue, number_of_busy_threads,
                   cancelled, done, fn_runs, cb_calls>>
    /\ UNCHANGED <<keyed_vars, join_from>>

\* the predicate Join waits on
NKJoinPredicate == number_of_busy_threads = 0

\* Join: job_condition_variable.notify_all(), before the mutex is taken
NKJoinCall(c) ==
    /\ dtor = "alive"
    /\ c \in Joiners
    /\ cpc[c] = "idle"
    /\ wpc' = NotifyAllJob(wpc)
    /\ cpc' = [cpc EXCEPT ![c] = "join_lock"]
    /\ join_from' = {j \in 1..Len(jobs) :
                        \A s \in Submitters :
                            cpc[s] = "add_notify" => j # Len(jobs)}
    /\ UNCHANGED <<mutex, wjob, jobs, job_queue, number_of_busy_threads,
                   cancelled, done, fn_runs, cb_calls>>
    /\ UNCHANGED keyed_vars

\* Join: takes the mutex (first, or again after a wakeup) and tests the
\* predicate; blocks in wait (releasing the mutex) when it is false
NKJoinCheck(c) ==
    /\ cpc[c] \in {"join_lock", "join_woken"}
    /\ mutex = Free
    /\ IF NKJoinPredicate
       THEN /\ mutex' = c
            /\ cpc' = [cpc EXCEPT ![c] = "join_ret"]
       ELSE /\ mutex' = Free
            /\ cpc' = [cpc EXCEPT ![c] = "join_wait"]
    /\ UNCHANGED <<wpc, wjob, jobs, job_queue, number_of_busy_threads,
                   cancelled, done, fn_runs, cb_calls>>
    /\ UNCHANGED <<keyed_vars, join_from>>

\* Join returns: the unique_lock is destroyed
NKJoinReturn(c) ==
    /\ cpc[c] = "join_ret"
    /\ mutex = c
    /\ mutex' = Free
    /\ cpc' = [cpc EXCEPT ![c] = "idle"]
    /\ join_from' = {}
    /\ UNCHANGED <<wpc, wjob, jobs, job_queue, number_of_busy_threads,
                   cancelled, done, fn_runs, cb_calls>>
    /\ UNCHANGED keyed_vars

\* Cancel: the queue is swapped with an empty one under the mutex
NKCancel(c) ==
    /\ dtor = "alive"
    /\ c \in Submitters
    /\ cpc[c] = "idle"
    /\ mutex = Free
    /\ job_queue' = << >>
    /\ cancelled' = cancelled \cup SeqSet(job_queue)
    /\ UNCHANGED <<mutex, wpc, wjob, cpc, jobs, number_of_busy_threads, done,
                   fn_runs, cb_calls>>
    /\ UNCHANGED <<keyed_vars, join_from>>

NKSpuriousJoinWakeup(c) ==
    /\ cpc[c] = "join_wait"
    /\ cpc' = [cpc EXCEPT ![c] = "join_woken"]
    /\ UNCHANGED <<mutex, wpc, wjob, jobs, job_queue, number_of_busy_threads,
                   cancelled, done, fn_runs, cb_calls>>
    /\ UNCHANGED <<keyed_vars, join_from>>

\* the dispatcher's wait predicate and the test that leaves the loop
NKJobWaitPredicate(w) == stop_requested[w] \/ job_queue # << >>

NKExitLoop(w) == stop_requested[w] /\ job_queue = << >>

\* idle branch: --number_of_busy_threads, the notify_all at zero, the first
\* evaluation of the wait predicate, and past the wait when it is true
NKWorkerIdle(w) ==
    /\ wpc[w] = "loop"
    /\ mutex = Free
    /\ job_queue = << >>
    /\ cpc' = IF Dec(number_of_busy_threads) = 0 THEN NotifyAllJoin(cpc) ELSE cpc
    /\ IF ~NKJobWaitPredicate(w)
       THEN /\ wpc' = [wpc EXCEPT ![w] = "blocking"]
            /\ mutex' = w
            /\ number_of_busy_threads' = Dec(number_of_busy_threads)
       ELSE IF NKExitLoop(w)
       THEN /\ wpc' = [wpc EXCEPT ![w] = "terminated"]
            /\ mutex' = Free
            /\ number_of_busy_threads' = Dec(number_of_busy_threads)
       ELSE /\ wpc' = [wpc EXCEPT ![w] = "loop"]
            /\ mutex' = Free
            /\ number_of_busy_threads' = Inc(Dec(number_of_busy_threads))
    /\ UNCHANGED <<wjob, jobs, job_queue, cancelled, done, fn_runs, cb_calls>>
    /\ UNCHANGED <<keyed_vars, join_from>>

\* condition_variable::wait(lk): releases the mutex and blocks, atomically
NKWorkerBlock(w) ==
    /\ wpc[w] = "blocking"
    /\ mutex = w
    /\ mutex' = Free
    /\ wpc' = [wpc EXCEPT ![w] = "waiting"]
    /\ UNCHANGED <<wjob, cpc, jobs, job_queue, number_of_busy_threads,
                   cancelled, done, fn_runs, cb_calls>>
    /\ UNCHANGED <<keyed_vars, join_from>>

\* after a wakeup: the mutex is taken again and the predicate re-evaluated;
\* then the test that leaves the loop, then ++number_of_busy_threads
NKWorkerWake(w) ==
    /\ wpc[w] = "woken"
    /\ mutex = Free
    /\ IF ~NKJobWaitPredicate(w)
       THEN /\ wpc' = [wpc EXCEPT ![w] = "blocking"]
            /\ mutex' = w
            /\ UNCHANGED number_of_busy_threads
       ELSE IF NKExitLoop(w)
       THEN /\ wpc' = [wpc EXCEPT ![w] = "terminated"]
            /\ mutex' = Free
            /\ UNCHANGED number_of_busy_threads
       ELSE /\ wpc' = [wpc EXCEPT ![w] = "loop"]
            /\ mutex' = Free
            /\ number_of_busy_threads' = Inc(number_of_busy_threads)
    /\ UNCHANGED <<wjob, cpc, jobs, job_queue, cancelled, done, fn_runs,
                   cb_calls>>
    /\ UNCHANGED <<keyed_vars, join_from>>

NKSpuriousJobWakeup(w) ==
    /\ wpc[w] = "waiting"
    /\ wpc' = [wpc EXCEPT ![w] = "woken"]
    /\ UNCHANGED <<mutex, wjob, cpc, jobs, job_queue, number_of_busy_threads,
                   cancelled, done, fn_runs, cb_calls>>
    /\ UNCHANGED <<keyed_vars, join_from>>

\* else branch, to lk.unlock(): the front is moved out and popped
NKWorkerDispatch(w) ==
    /\ wpc[w] = "loop"
    /\ mutex = Free
    /\ job_queue # << >>
    /\ wjob' = [wjob EXCEPT ![w] = Head(job_queue)]
    /\ job_queue' = Tail(job_queue)
    /\ wpc' = [wpc EXCEPT ![w] = "exec"]
    /\ UNCHANGED <<mutex, cpc, jobs, number_of_busy_threads, cancelled, done,
                   fn_runs, cb_calls>>
    /\ UNCHANGED <<keyed_vars, join_from>>

\* job.get(): the callable, then the callback if the job has one; the
\* worker goes back to the head of its loop with no mutex taken
NKWorkerRun(w) ==
    /\ wpc[w] = "exec"
    /\ fn_runs' = [fn_runs EXCEPT ![wjob[w]] = @ + 1]
    /\ cb_calls' = [cb_calls EXCEPT ![wjob[w]] =
                        IF jobs[wjob[w]].cb THEN Append(@, TRUE) ELSE @]
    /\ done' = done \cup {wjob[w]}
    /\ wjob' = [wjob EXCEPT ![w] = NoJob]
    /\ wpc' = [wpc EXCEPT ![w] = "loop"]
    /\ UNCHANGED <<mutex, cpc, jobs, job_queue, number_of_busy_threads,
                   cancelled>>
    /\ UNCHANGED <<keyed_vars, join_from>>

NKSubmitStep(c) ==
    \/ NKAdd(c)
    \/ NKAddWithCallback(c)
    \/ NKAddNotify(c)

NKJoinStep(c) ==
    \/ NKJoinCall(c)
    \/ NKJoinCheck(c)
    \/ NKJoinReturn(c)

NKWorkerStep(w) ==
    \/ NKWorkerIdle(w)
    \/ NKWorkerBlock(w)
    \/ NKWorkerWake(w)
    \/ NKWorkerDispatch(w)
    \/ NKWorkerRun(w)

\* the no-key queue in use
NextNoKey ==
    \/ \E c \in Clients : NKSubmitStep(c)
    \/ \E c \in Clients : NKCancel(c)
    \/ \E c \in Clients : NKJoinStep(c)
    \/ \E c \in Clients : NKSpuriousJoinWakeup(c)
    \/ \E w \in Workers : NKWorkerStep(w)
    \/ \E w \in Workers : NKSpuriousJobWakeup(w)

SpecNoKey == Init /\ [][NextNoKey]_vars

\* scheduling of the no-key queue: as for the keyed one
FairnessNoKey ==
    /\ \A w \in Workers : SF_vars(NKWorkerStep(w))
    /\ \A c \in Clients :
          /\ WF_vars(NKAddNotify(c))
          /\ SF_vars(NKJoinCheck(c))
          /\ WF_vars(NKJoinReturn(c))

FairSpecNoKey == SpecNoKey /\ FairnessNoKey

\* ~AsyncJobQueue of the no-key queue: request_stop on every thread, then
\* job_condition_variable.notify_all(), then the jthreads are joined
NKDtorStep == DtorStep

\* the no-key queue in use and then destroyed
NextNoKeyShutdown ==
    \/ NextNoKey
    \/ NKDtorStep

SpecNoKeyShutdown == Init /\ [][NextNoKeyShutdown]_vars

\* ================================================================ claims
Added == 1..Len(jobs)

\* the worker holding job j between its dequeue and the end of its body
Executing(j) == \E w \in pool : wjob[w] = j /\ wpc[w] \in {"exec", "callback"}

\* j's worker has not yet done the accounting after the body
InWorker(j) == \E w \in pool : wjob[w] = j

Before(s, a, b) ==
    \E i, h \in 1..Len(s) : i < h /\ s[i] = a /\ s[h] = b

\* the sum of the counts of a map
RECURSIVE MapSum(_)
MapSum(m) ==
    IF DOMAIN m = {} THEN 0
    ELSE LET k == CHOOSE x \in DOMAIN m : TRUE
         IN  m[k] + MapSum(Erase(m, {k}))

\* the workers that hold a job they moved out of job_list
Running == {w \in pool : wpc[w] \in {"exec", "callback", "relock"}}

\* ---------------------------------------------------------------- C1
\* C1: a Join call returns only in a state, observed with the mutex held by
\* the caller, where job_list is empty and none of the call's keys is in
\* the pending or the in-progress map; a Join() with no key returns only
\* when both maps are empty as well, so no job is queued or held by a worker.
C1_JoinReturnsQuiescent ==
    \A c \in Clients :
        cpc[c] = "join_ret" =>
            /\ mutex = c
            /\ job_list = << >>
            /\ \A k \in ckeys[c] :
                  /\ ~Contains(pending_job_count_map, k)
                  /\ ~Contains(in_progress_job_count_map, k)
                  /\ \A j \in Added : jobs[j].key = k => ~InWorker(j)
            /\ ckeys[c] = {} =>
                  /\ DOMAIN pending_job_count_map = {}
                  /\ DOMAIN in_progress_job_count_map = {}
                  /\ \A j \in Added : ~InWorker(j)

\* a Join("A") returns after a job of key "A" ran, a job of "B" still running
C1_Witness ==
    \E c \in Clients :
        /\ cpc[c] = "join_ret"
        /\ ckeys[c] = {"A"}
        /\ \E j \in done : jobs[j].key = "A"
        /\ Contains(in_progress_job_count_map, "B")

\* ---------------------------------------------------------------- C2
\* C2 (as stated): no caller stays blocked in Join forever with its
\* predicate true: it is not eventually always the case that a caller
\* waits on join_condition_variable while its predicate holds.
C2_NoMissedWakeup ==
    \A c \in Joiners :
        []<>(~(cpc[c] = "join_wait" /\ JoinPredicate(ckeys[c])))

\* ---------------------------------------------------------------- C3
\* C3: jobs leave job_list in submission order: when a job has been
\* dequeued, every job added before it was dequeued earlier or removed by
\* Cancel; with a pool of one worker the jobs start in dequeue order, which
\* is then the submission order.
C3_FifoDequeue ==
    /\ \A j2 \in SeqSet(dequeue_log) : \A j1 \in 1..(j2 - 1) :
          j1 \in cancelled \/ Before(dequeue_log, j1, j2)
    /\ \A j \in cancelled : j \notin SeqSet(dequeue_log)
    /\ Cardinality(pool) = 1 =>
          /\ Len(start_log) <= Len(dequeue_log)
          /\ start_log = SubSeq(dequeue_log, 1, Len(start_log))
          /\ \A a, b \in SeqSet(start_log) : Before(start_log, a, b) => a < b

\* a pool of one worker started two jobs of different keys
C3_Witness ==
    /\ Cardinality(pool) = 1
    /\ start_log = <<1, 2>>
    /\ jobs[1].key # jobs[2].key

\* ---------------------------------------------------------------- C4
\* C4 (state part): a job Cancel removed from job_list is never dequeued or
\* run; no job runs twice; when a Join() with no key returns, every job
\* added so far was either removed by a Cancel or ran exactly once and is
\* finished.
C4_CancelledNeverRun ==
    /\ \A j \in cancelled :
          /\ fn_runs[j] = 0
          /\ j \notin SeqSet(dequeue_log)
          /\ j \notin SeqSet(job_list)
          /\ j \notin done
    /\ \A j \in Added : fn_runs[j] <= 1
    /\ \A c \in Clients :
          (cpc[c] = "join_ret" /\ ckeys[c] = {}) =>
              \A j \in Added :
                  j \in cancelled \/ (j \in done /\ fn_runs[j] = 1)

\* C4 (step part): a Cancel(ks) removes from job_list exactly the entries
\* whose key is among ks (every entry when ks is empty) and leaves the
\* others in place, so the jobs of the other keys all stay queued.
C4_CancelStep ==
    \A c \in Clients : \A ks \in SUBSET Keys :
        CancelKeys(c, ks) =>
            /\ SeqSet(job_list) \ SeqSet(job_list') =
                  {j \in SeqSet(job_list) : ks = {} \/ jobs[j].key \in ks}
            /\ \A a, b \in SeqSet(job_list') :
                  Before(job_list', a, b) <=> Before(job_list, a, b)

\* C4: selective cancel, the two parts together
C4_SelectiveCancel == [](C4_CancelledNeverRun) /\ [][C4_CancelStep]_vars

\* a Join() returned after the job of key "A" ran and the job of key "B"
\* was cancelled
C4_Witness ==
    \E c \in Clients :
        /\ cpc[c] = "join_ret"
        /\ ckeys[c] = {}
        /\ \E a \in done : jobs[a].key = "A" /\ fn_runs[a] = 1
        /\ \E b \in cancelled : jobs[b].key = "B"

\* ---------------------------------------------------------------- C5
\* C5 (as stated): Join() of the no-key queue returns only when the pool
\* is quiescent, so that every job whose Add or AddWithCallback had
\* returned before Join() was called is then out of job_queue, held by no
\* worker, and finished unless a Cancel removed it.
C5_NoKeyJoinQuiescent ==
    \A c \in Clients :
        cpc[c] = "join_ret" =>
            \A j \in join_from :
                /\ j \notin SeqSet(job_queue)
                /\ \A w \in pool : wjob[w] # j
                /\ j \in done \/ j \in cancelled

\* ---------------------------------------------------------------- C6
\* C6 (as stated): once the destructor has requested stop on every worker
\* and issued its notify_all, every worker terminates and the destructor's
\* join of the threads completes.
C6_ShutdownTerminates == (dtor = "joining") ~> (dtor = "destroyed")

C8_ReadyFalseWhileOutstanding ==
    \A j \in Added :
        (j \in SeqSet(job_list) \/ Executing(j)) =>
            ~Ready({jobs[j].key}) /\ ~Ready({})

\* ---------------------------------------------------------------- C9
\* C9: under fair scheduling and with no stop requested, every job in
\* job_list is eventually run by a worker and finished unless a Cancel
\* removes it, and once submissions have stopped Ready(k) becomes true for
\* every key k and stays true.
C9_EveryJobRuns ==
    /\ \A j \in JobIds :
          (j \in SeqSet(job_list)) ~>
              (j \in cancelled \/ (j \in done /\ fn_runs[j] = 1))
    /\ <>[](Ready(Keys))

\* both jobs were added to idle workers, ran and are finished, and the
\* queue is Ready for every key
C9_Witness ==
    /\ Len(jobs) = MaxJobs
    /\ done = Added
    /\ Ready(Keys)
    /\ \A w \in pool : wpc[w] = "waiting"

\* --------------------------------------------------------------- C10
\* C10: the callback of a job runs at most once, only after the callable,
\* and receives the callable's result; it has run once the job is finished
\* in the accounting, and while it has not run the job's key is still in
\* the in-progress map; so a Join on that key (or on no key) that returns
\* finds the callback done.  A cancelled job's callback never runs, and a
\* job added without callback has none.
C10_CallbackCorrect ==
    /\ \A j \in JobIds \ Added : cb_calls[j] = << >>
    /\ \A j \in Added :
          /\ Len(cb_calls[j]) <= 1
          /\ \A i \in 1..Len(cb_calls[j]) : cb_calls[j][i]
          /\ cb_calls[j] # << >> => (jobs[j].cb /\ fn_runs[j] = 1)
          /\ (j \in done /\ jobs[j].cb) => Len(cb_calls[j]) = 1
          /\ j \in cancelled => cb_calls[j] = << >>
          /\ (Executing(j) /\ jobs[j].cb) =>
                Contains(in_progress_job_count_map, jobs[j].key)
    /\ \A c \in Clients :
          cpc[c] = "join_ret" =>
              \A j \in Added :
                  (jobs[j].cb /\ (ckeys[c] = {} \/ jobs[j].key \in ckeys[c])) =>
                      (j \in cancelled \/ Len(cb_calls[j]) = 1)

\* a Join("A") returned after the callback of a job of key "A" ran
C10_Witness ==
    \E c \in Clients :
        /\ cpc[c] = "join_ret"
        /\ ckeys[c] = {"A"}
        /\ \E j \in done : jobs[j].cb /\ jobs[j].key = "A" /\ cb_calls[j] = <<TRUE>>

\* --------------------------------------------------------------- C11
\* C11: with a pool of K workers, at most K jobs are being executed at any
\* time, each by a different worker, and the counts of the in-progress map
\* add up to at most K.
C11_ConcurrencyBound ==
    /\ Cardinality({j \in Added : InWorker(j)}) <= Cardinality(pool)
    /\ \A j \in Added : Cardinality({w \in pool : wjob[w] = j}) <= 1
    /\ MapSum(in_progress_job_count_map) <= Cardinality(pool)

\* a pool of two workers executes two jobs at once
C11_Witness ==
    /\ Cardinality(pool) = 2
    /\ Cardinality({j \in Added : Executing(j)}) = 2
    /\ MapSum(in_progress_job_count_map) = 2

\* --------------------------------------------------------------- C12
\* the entries of a list of jobs whose key is not among ks, in list order
C12_OtherEntries(s, ks) == SelectSeq(s, LAMBDA j : jobs[j].key \notin ks)

\* C12 (one step): a Cancel(ks) leaves the in-progress map as it is, and
\* every worker and the job it holds; with keys given, the entries of the
\* other keys stay in job_list in the same order and the pending counts of
\* the other keys are unchanged; no job a worker holds becomes cancelled.
C12_CancelFrameStep ==
    \A c \in Clients : \A ks \in SUBSET Keys :
        CancelKeys(c, ks) =>
            /\ in_progress_job_count_map' = in_progress_job_count_map
            /\ wjob' = wjob /\ wpc' = wpc /\ wret' = wret
            /\ done' = done /\ fn_runs' = fn_runs /\ cb_calls' = cb_calls
            /\ \A j \in Added : InWorker(j) => j \notin cancelled'
            /\ ks # {} =>
                  /\ C12_OtherEntries(job_list', ks) = C12_OtherEntries(job_list, ks)
                  /\ \A k \in Keys \ ks :
                        /\ Contains(pending_job_count_map', k)
                              <=> Contains(pending_job_count_map, k)
                        /\ At(pending_job_count_map', k) = At(pending_job_count_map, k)

\* C12: the frame of Cancel, at every Cancel step
C12_CancelFrame == [][C12_CancelFrameStep]_vars

\* a Cancel of one key removed the later job and left the earlier job, of
\* the other key, in job_list
C12_Witness ==
    \E a \in cancelled : \E b \in SeqSet(job_list) :
        b < a /\ jobs[b].key # jobs[a].key

\* --------------------------------------------------------------- C13
\* C13 (as stated): a job whose callable or callback raises an error does
\* not bring its worker or the pool down: no thread of the pool is ever
\* aborted, and a worker that holds a job is on its way to the accounting
\* after the body.
C13_JobFailureLocal ==
    \A w \in pool :
        /\ wpc[w] # "aborted"
        /\ wjob[w] # NoJob => wpc[w] \in {"exec", "callback", "relock"}

\* --------------------------------------------------------------- C14
\* none of the keys ks has a job queued or held by a worker
C14_KeysIdle(ks) ==
    \A k \in ks :
        /\ ~Contains(pending_job_count_map, k)
        /\ ~Contains(in_progress_job_count_map, k)
        /\ \A j \in SeqSet(job_list) : jobs[j].key # k

\* the step in which the Join call of c takes the mutex and tests its
\* predicate for the first time
C14_FirstCheck(c) == cpc[c] = "join_lock" /\ JoinCheck(c)

\* C14 (as stated): a Join(k) called while k has no pending and no
\* in-progress job returns without blocking, whatever jobs of other keys
\* are queued or running.
C14_JoinIdleKeyImmediate ==
    [][\A c \in Joiners :
          (C14_FirstCheck(c) /\ ckeys[c] # {} /\ C14_KeysIdle(ckeys[c]))
              => cpc'[c] = "join_ret"]_vars

\* C14 (amended): a Join(k) called while k has no pending and no
\* in-progress job returns without blocking exactly when job_list is empty
\* at its first test: jobs of other keys may be running, but while a job of
\* any key is queued the call blocks.
C14_JoinIdleKeyWhenListEmpty ==
    [][\A c \in Joiners :
          (C14_FirstCheck(c) /\ ckeys[c] # {} /\ C14_KeysIdle(ckeys[c]))
              => (cpc'[c] = "join_ret" <=> job_list = << >>)]_vars

\* a Join("A") is returning with no job of key "A" ever added, while a job
\* of key "B" is running
C14_Witness ==
    \E c \in Joiners :
        /\ cpc[c] = "join_ret"
        /\ ckeys[c] = {"A"}
        /\ \A j \in Added : jobs[j].key = "B"
        /\ Contains(in_progress_job_count_map, "B")

\* --------------------------------------------------------------- C15
\* C15 (as stated): Ready(keys...) is an atomic snapshot: whenever a call
\* comes to return true, some single state since the call began had
\* job_list empty and none of the keys in either map.
C15_ReadyAtomicSnapshot ==
    \A c \in Clients : cpc[c] = "ready_true" => ready_seen

\* --------------------------------------------------------------- C16
\* C16 (state part): a terminated worker holds no job, and every job ever
\* dequeued is finished or still held by a running worker.
C16_NoJobLost ==
    /\ \A w \in pool : wpc[w] = "terminated" => wjob[w] = NoJob
    /\ \A j \in SeqSet(dequeue_log) :
          j \in done \/ \E w \in Running : wjob[w] = j

\* C16 (step part): a worker terminates only from the idle branch, holding
\* no job, with stop requested on it and job_list empty.
C16_ExitStep ==
    \A w \in pool :
        (wpc[w] # "terminated" /\ wpc'[w] = "terminated") =>
            /\ wpc[w] \in {"loop", "woken"}
            /\ wjob[w] = NoJob
            /\ stop_requested[w]
            /\ job_list = << >>

\* C16: a job a worker has dequeued when stop is requested runs to
\* completion, accounting included, before that worker exits; a worker
\* exits only from the idle branch, on stop requested and job_list empty.
C16_InProgressSurvivesStop ==
    /\ [](C16_NoJobLost)
    /\ [][C16_ExitStep]_vars
    /\ \A j \in JobIds : (j \in Added /\ InWorker(j)) ~> (j \in done)

\* stop is requested on every worker while one is executing a job it
\* dequeued before the last request
C16_Witness ==
    /\ dtor # "alive"
    /\ AllStopRequested
    /\ \E w \in pool : wpc[w] = "exec" /\ wjob[w] \notin pending_at_stop

\* --------------------------------------------------------------- C17
\* the entries of job_list with key k; the workers holding a job of key k
C17_Queued(k) == {i \in 1..Len(job_list) : jobs[job_list[i]].key = k}

C17_Holding(k) == {w \in Running : jobs[wjob[w]].key = k}

\* C17: whenever the mutex is free, for every key k the pending map holds k
\* exactly when job_list has an entry of key k, with their number as count,
\* and the in-progress map holds k exactly when a worker holds a job of key
\* k, with the number of those workers as count; so no count is 0 or has
\* wrapped, and the entry a worker refers to across its job stays in the
\* map until that worker has decremented it.
C17_AccountingConsistent ==
    mutex = Free =>
        \A k \in Keys :
            /\ Contains(pending_job_count_map, k) <=> C17_Queued(k) # {}
            /\ At(pending_job_count_map, k) = Cardinality(C17_Queued(k))
            /\ Contains(in_progress_job_count_map, k) <=> C17_Holding(k) # {}
            /\ At(in_progress_job_count_map, k) = Cardinality(C17_Holding(k))

\* one job of key "A" is queued while another is held by a worker
C17_Witness ==
    /\ mutex = Free
    /\ At(pending_job_count_map, "A") = 1
    /\ At(in_progress_job_count_map, "A") = 1

\* --------------------------------------------------------------- C18
\* C18: a worker inside a job body does not hold the mutex: while a job
\* runs the mutex is free or held by a thread on its way to release it (a
\* worker entering its wait, a caller returning from Join), so Add, Cancel
\* and other workers go on; the key of a job a worker holds is in the
\* in-progress map, also when another job of the same key has finished.
C18_RunsOutsideLock ==
    /\ \A w \in pool : wpc[w] \in {"exec", "callback"} =>
          /\ mutex # w
          /\ \/ mutex = Free
             \/ \E t \in pool : mutex = t /\ wpc[t] = "blocking"
             \/ \E c \in Clients : mutex = c /\ cpc[c] = "join_ret"
    /\ \A w \in Running :
          Contains(in_progress_job_count_map, jobs[wjob[w]].key)

\* two jobs of key "A" are inside their bodies on two workers, the mutex
\* free
C18_Witness ==
    /\ mutex = Free
    /\ At(in_progress_job_count_map, "A") = 2
    /\ \A w \in pool : wpc[w] \in {"exec", "callback"}
    /\ Cardinality(pool) = 2

\* --------------------------------------------------------------- C19
\* the workers of the no-key queue that are inside the idle wait (from the
\* decrement to the increment) or have left their loop from it
C19_IdleOrGone ==
    {w \in pool : wpc[w] \in {"blocking", "waiting", "woken", "terminated"}}

\* C19: in the no-key queue number_of_busy_threads is between 0 and the
\* pool size and equals the number of workers that are neither inside the
\* idle wait nor terminated; it never wraps below zero, whatever Cancel,
\* Join's notify_all, spurious wakeups and the destructor do.
C19_BusyCounter ==
    /\ number_of_busy_threads >= 0
    /\ number_of_busy_threads <= Cardinality(pool)
    /\ number_of_busy_threads = Cardinality(pool \ C19_IdleOrGone)

\* during destruction one worker of two has terminated and the other is
\* running a job, after a Cancel
C19_Witness ==
    /\ dtor # "alive"
    /\ Cardinality(pool) = 2
    /\ number_of_busy_threads = 1
    /\ \E w \in pool : wpc[w] = "terminated"
    /\ \E w \in pool : wpc[w] = "exec"
    /\ cancelled # {}

\* --------------------------------------------------------------- C20
\* C20: in the no-key queue, with no stop requested, job bodies that end
\* and submissions that cease, every Join() call eventually returns,
\* whatever Add, Cancel and the workers do meanwhile, and no caller is left
\* waiting forever with number_of_busy_threads at 0.
C20_NoKeyJoinReturns ==
    /\ \A c \in Joiners : (cpc[c] = "join_lock") ~> (cpc[c] = "join_ret")
    /\ \A c \in Joiners :
          []<>(~(cpc[c] = "join_wait" /\ NKJoinPredicate))

\* a Join() called after every Add had returned is returning: a job ran,
\* another was cancelled, and every worker is back in its idle wait
C20_Witness ==
    \E c \in Joiners :
        /\ cpc[c] = "join_ret"
        /\ done # {}
        /\ cancelled # {}
        /\ join_from = Added
        /\ \A w \in pool : wpc[w] = "waiting"

====
